---- MODULE Spec2Model ----
(***************************************************************************)
(* A model of privacy_policy_analyzer.py: the sentence segmenter           *)
(* (split_sentences), the category matcher (analyze_policy), the           *)
(* recommendation aggregator (get_recommendations) and the command-line    *)
(* driver (main) that composes them.                                       *)
(*                                                                         *)
(* A Python str is a sequence of characters; a character is a one-element  *)
(* string, so "ab" is <<"a", "b">> and "" is <<>>.                         *)
(***************************************************************************)
EXTENDS Naturals, Sequences, FiniteSets, TLC

VARIABLES
    pc,                 \* where the run is
    file_path,          \* args.file_path ("" when -f is absent or empty)
    source,             \* the characters of the file, or of standard input
    text,               \* the policy text handed to the core
    categories,         \* the category table handed to analyze_policy
    sentences,          \* the value split_sentences returned
    results,            \* the value analyze_policy returned
    unique_categories,  \* main's unique_categories / the argument of get_recommendations
    recommendations,    \* the value get_recommendations returned
    output              \* what the run printed, in order

vars == <<pc, file_path, source, text, categories, sentences, results,
          unique_categories, recommendations, output>>

-----------------------------------------------------------------------------
(* Bounds of the model. *)

\* Longest text, in characters, given to split_sentences on its own.
MaxLen == 6

-----------------------------------------------------------------------------
(* Characters. *)

\* What \s and str.strip() take for whitespace (the ASCII part of it).
Whitespace == {" ", "\t", "\n", "\r", "\f"}

\* The character class [.!?] of the sentence_endings pattern.
SentenceEndChars == {".", "!", "?"}

UpperLetters == <<"A", "B", "C", "D", "E", "F", "G", "H", "I", "J", "K", "L", "M",
                  "N", "O", "P", "Q", "R", "S", "T", "U", "V", "W", "X", "Y", "Z", "É">>

LowerLetters == <<"a", "b", "c", "d", "e", "f", "g", "h", "i", "j", "k", "l", "m",
                  "n", "o", "p", "q", "r", "s", "t", "u", "v", "w", "x", "y", "z", "é">>

\* The character class [A-Z] of the sentence_endings pattern: ASCII only.
AsciiUpper == {UpperLetters[i] : i \in 1..26}

\* str.lower() on one character.
LowerChar(c) ==
    IF \E i \in DOMAIN UpperLetters : UpperLetters[i] = c
    THEN LowerLetters[CHOOSE i \in DOMAIN UpperLetters : UpperLetters[i] = c]
    ELSE c

\* str.lower()
Lower(s) == [i \in DOMAIN s |-> LowerChar(s[i])]

-----------------------------------------------------------------------------
(* split_sentences *)

\* The first index >= i of s that holds no whitespace (Len(s) + 1 if none).
RECURSIVE SkipWhitespace(_, _)
SkipWhitespace(s, i) ==
    IF i <= Len(s) /\ s[i] \in Whitespace THEN SkipWhitespace(s, i + 1) ELSE i

\* The last index <= i of s that holds no whitespace (0 if none).
RECURSIVE SkipWhitespaceBack(_, _)
SkipWhitespaceBack(s, i) ==
    IF i >= 1 /\ s[i] \in Whitespace THEN SkipWhitespaceBack(s, i - 1) ELSE i

\* str.strip()
Strip(s) ==
    LET first == SkipWhitespace(s, 1)
        last == SkipWhitespaceBack(s, Len(s))
    IN  IF first > last THEN <<>> ELSE SubSeq(s, first, last)

\* re.sub(r"\s+", " ", s), from index i on: every run of whitespace becomes one space.
RECURSIVE SubWhitespaceRuns(_, _)
SubWhitespaceRuns(s, i) ==
    IF i > Len(s) THEN <<>>
    ELSE IF s[i] \in Whitespace
         THEN <<" ">> \o SubWhitespaceRuns(s, SkipWhitespace(s, i))
         ELSE <<s[i]>> \o SubWhitespaceRuns(s, i + 1)

\* cleaned = re.sub(r"\s+", " ", text.strip())
Cleaned(t) == SubWhitespaceRuns(Strip(t), 1)

\* The largest e in lo..hi with an [A-Z] at e + 1, trying hi first as the greedy \s+
\* backtracks; 0 if there is none.
RECURSIVE BacktrackToLookahead(_, _, _)
BacktrackToLookahead(s, lo, hi) ==
    IF hi < lo THEN 0
    ELSE IF hi + 1 <= Len(s) /\ s[hi + 1] \in AsciiUpper THEN hi
         ELSE BacktrackToLookahead(s, lo, hi - 1)

\* MatchSentenceEnding with the lookahead (?=[A-Z]) left out of the pattern.
MatchWithoutLookahead(s, pos) ==
    IF pos > 1 /\ s[pos - 1] \in SentenceEndChars /\ s[pos] \in Whitespace
    THEN SkipWhitespace(s, pos) - 1
    ELSE 0

\* A match of (?<=[.!?])\s+(?=[A-Z]) starting at index pos of s: the index of its last
\* character, 0 if the pattern does not match there.
MatchSentenceEnding(s, pos) ==
    IF pos > 1 /\ s[pos - 1] \in SentenceEndChars /\ s[pos] \in Whitespace
    THEN BacktrackToLookahead(s, pos, SkipWhitespace(s, pos) - 1)
    ELSE 0

\* sentence_endings.split(s): the scan is at pos, the piece being cut began at start.
RECURSIVE SplitFrom(_, _, _)
SplitFrom(s, start, pos) ==
    IF pos > Len(s) THEN <<SubSeq(s, start, Len(s))>>
    ELSE LET e == MatchSentenceEnding(s, pos)
         IN  IF e # 0
             THEN <<SubSeq(s, start, pos - 1)>> \o SplitFrom(s, e + 1, e + 1)
             ELSE SplitFrom(s, start, pos + 1)

\* SentenceEndingsSplit with the mark matched, and so dropped, instead of looked
\* behind at: the pattern [.!?]\s+(?=[A-Z]).
RECURSIVE SplitDroppingMarkFrom(_, _, _)
SplitDroppingMarkFrom(s, start, pos) ==
    IF pos > Len(s) THEN <<SubSeq(s, start, Len(s))>>
    ELSE LET e == MatchSentenceEnding(s, pos)
         IN  IF e # 0
             THEN <<SubSeq(s, start, pos - 2)>> \o SplitDroppingMarkFrom(s, e + 1, e + 1)
             ELSE SplitDroppingMarkFrom(s, start, pos + 1)

SplitDroppingMark(s) == SplitDroppingMarkFrom(s, 1, 1)

\* sentence_endings.split(cleaned)
SentenceEndingsSplit(s) == SplitFrom(s, 1, 1)

\* StripNonEmpty without its filter: [s.strip() for s in sentences].
StripKeepingEmpty(pieces) == [i \in DOMAIN pieces |-> Strip(pieces[i])]

\* [s.strip() for s in sentences if s.strip()]
StripNonEmpty(pieces) ==
    LET NonBlank(p) == Strip(p) # <<>>
        kept == SelectSeq(pieces, NonBlank)
    IN  [i \in DOMAIN kept |-> Strip(kept[i])]

split_sentences(t) == StripNonEmpty(SentenceEndingsSplit(Cleaned(t)))

-----------------------------------------------------------------------------
(* analyze_policy *)

\* Whether needle occurs in hay at index i or later: the scan of `needle in hay`.
RECURSIVE FindFrom(_, _, _)
FindFrom(hay, needle, i) ==
    IF i + Len(needle) - 1 > Len(hay) THEN FALSE
    ELSE IF SubSeq(hay, i, i + Len(needle) - 1) = needle THEN TRUE
         ELSE FindFrom(hay, needle, i + 1)

\* Contains with a word-boundary check: kw must not lie inside a longer word.
ContainsWholeWord(lowered, kw) ==
    \E i \in 1..(Len(lowered) + 1 - Len(kw)) :
        /\ SubSeq(lowered, i, i + Len(kw) - 1) = kw
        /\ i > 1 => \A l \in DOMAIN LowerLetters : lowered[i - 1] # LowerLetters[l]
        /\ i + Len(kw) <= Len(lowered)
               => \A l \in DOMAIN LowerLetters : lowered[i + Len(kw)] # LowerLetters[l]

\* kw in lowered
Contains(lowered, kw) == FindFrom(lowered, kw, 1)

\* any(kw in lowered for kw in keywords)
AnyKeyword(lowered, keywords) ==
    \E k \in DOMAIN keywords : Contains(lowered, keywords[k])

\* matched = [cat for cat, keywords in categories.items() if any(...)], from the
\* table's entry i on: the table is walked in its insertion order.
RECURSIVE MatchedFrom(_, _, _)
MatchedFrom(lowered, cats, i) ==
    IF i > Len(cats) THEN <<>>
    ELSE (IF AnyKeyword(lowered, cats[i].keywords) THEN <<cats[i].name>> ELSE <<>>)
         \o MatchedFrom(lowered, cats, i + 1)

\* Matched without the lowercasing: the keywords are looked for in the sentence
\* as written.
MatchedWithoutLower(sentence, cats) == MatchedFrom(sentence, cats, 1)

\* lowered = sentence.lower(); matched = [...]
Matched(sentence, cats) == MatchedFrom(Lower(sentence), cats, 1)

\* AppendIfMatched without its test: every sentence is recorded.
AppendAlways(res, sentence, matched) ==
    Append(res, [sentence |-> sentence, matched |-> matched])

\* if matched: results.append((sentence, matched))
AppendIfMatched(res, sentence, matched) ==
    IF matched # <<>>
    THEN Append(res, [sentence |-> sentence, matched |-> matched])
    ELSE res

\* for sentence in sentences: ..., from sentence i on, res being the results so far.
RECURSIVE AnalyzeLoop(_, _, _, _)
AnalyzeLoop(sents, i, cats, res) ==
    IF i > Len(sents) THEN res
    ELSE AnalyzeLoop(sents, i + 1, cats,
                     AppendIfMatched(res, sents[i], Matched(sents[i], cats)))

analyze_policy(t, cats) == AnalyzeLoop(split_sentences(t), 1, cats, <<>>)

-----------------------------------------------------------------------------
(* get_recommendations *)

\* Each recommendation is written by its opening words; the table holds sixteen
\* distinct strings, as the source's does.
category_recommendations == <<
    [name |-> "Data Sharing", recs |-> <<
        "Review the app's settings for data sharing",
        "Disable permissions for unnecessary sensors"
    >>],
    [name |-> "Data Selling", recs |-> <<
        "Check whether the app offers an option",
        "Consider contacting the app developer"
    >>],
    [name |-> "Advertising", recs |-> <<
        "In your device settings, limit ad tracking or disable personalized ads",
        "Within the app, look for advertising preferences"
    >>],
    [name |-> "Analytics & Tracking", recs |-> <<
        "Disable analytics or usage tracking in the app's settings",
        "Clear cookies and app data periodically"
    >>],
    [name |-> "Personal Information", recs |-> <<
        "Provide only the minimum personal information required for the app",
        "Regularly review and update your privacy settings"
    >>],
    [name |-> "Location", recs |-> <<
        "Set location permissions to 'While Using the App' or 'Never'",
        "Disable precise location access"
    >>],
    [name |-> "Retention", recs |-> <<
        "If the policy indicates long data retention",
        "Request account deletion or data export"
    >>],
    [name |-> "Security", recs |-> <<
        "Enable any available security features",
        "Keep your device and apps updated"
    >>]
>>

\* category_recommendations.get(category, [])
GetRecommendations(category) ==
    IF \E i \in DOMAIN category_recommendations :
           category_recommendations[i].name = category
    THEN category_recommendations[
             CHOOSE i \in DOMAIN category_recommendations :
                 category_recommendations[i].name = category].recs
    ELSE <<>>

\* for category in matched_categories: recs.extend(...), from category i on.
RECURSIVE ExtendLoop(_, _, _)
ExtendLoop(matched_categories, i, recs) ==
    IF i > Len(matched_categories) THEN recs
    ELSE ExtendLoop(matched_categories, i + 1,
                    recs \o GetRecommendations(matched_categories[i]))

\* AppendIfUnseen without its test: no deduplication.
AppendSeenToo(deduped, rec) == Append(deduped, rec)

\* if rec not in seen: seen.add(rec); deduped.append(rec)
AppendIfUnseen(deduped, rec) ==
    IF \E j \in DOMAIN deduped : deduped[j] = rec THEN deduped ELSE Append(deduped, rec)

\* for rec in recs: ..., from recs[i] on; seen is the set of deduped's elements.
RECURSIVE DedupeLoop(_, _, _)
DedupeLoop(recs, i, deduped) ==
    IF i > Len(recs) THEN deduped
    ELSE DedupeLoop(recs, i + 1, AppendIfUnseen(deduped, recs[i]))

get_recommendations(matched_categories) ==
    DedupeLoop(ExtendLoop(matched_categories, 1, <<>>), 1, <<>>)

-----------------------------------------------------------------------------
(* main *)

\* The categories table main defines; keywords are lowercase.
BuiltinCategories == <<
    [name |-> "Data Sharing", keywords |-> <<
        <<"s", "h", "a", "r", "e">>,  \* share
        <<"t", "h", "i", "r", "d", " ", "p", "a", "r", "t", "y">>,  \* third party
        <<"t", "h", "i", "r", "d", "-", "p", "a", "r", "t", "y">>,  \* third-party
        <<"p", "a", "r", "t", "n", "e", "r">>,  \* partner
        <<"v", "e", "n", "d", "o", "r">>,  \* vendor
        <<"a", "f", "f", "i", "l", "i", "a", "t", "e">>,  \* affiliate
        <<"d", "i", "s", "c", "l", "o", "s", "e">>,  \* disclose
        <<"p", "r", "o", "v", "i", "d", "e">>  \* provide
    >>],
    [name |-> "Data Selling", keywords |-> <<
        <<"s", "e", "l", "l">>,  \* sell
        <<"s", "a", "l", "e">>,  \* sale
        <<"m", "o", "n", "e", "t", "i", "z", "e">>,  \* monetize
        <<"c", "o", "m", "m", "e", "r", "c", "i", "a", "l", "i", "z", "e">>  \* commercialize
    >>],
    [name |-> "Advertising", keywords |-> <<
        <<"a", "d", "v", "e", "r", "t", "i", "s", "i", "n", "g">>,  \* advertising
        <<"a", "d", "v", "e", "r", "t", "i", "s", "e", "m", "e", "n", "t">>,  \* advertisement
        <<"a", "d", "v", "e", "r", "t", "i", "s", "e", "r">>,  \* advertiser
        <<"m", "a", "r", "k", "e", "t", "i", "n", "g">>,  \* marketing
        <<"p", "r", "o", "m", "o", "t", "i", "o", "n", "a", "l">>  \* promotional
    >>],
    [name |-> "Analytics & Tracking", keywords |-> <<
        <<"a", "n", "a", "l", "y", "t", "i", "c", "s">>,  \* analytics
        <<"t", "r", "a", "c", "k", "i", "n", "g">>,  \* tracking
        <<"c", "o", "o", "k", "i", "e">>,  \* cookie
        <<"b", "e", "a", "c", "o", "n">>,  \* beacon
        <<"p", "i", "x", "e", "l">>,  \* pixel
        <<"s", "d", "k">>  \* sdk
    >>],
    [name |-> "Personal Information", keywords |-> <<
        <<"p", "e", "r", "s", "o", "n", "a", "l", " ", "i", "n", "f", "o", "r", "m", "a", "t", "i", "o", "n">>,  \* personal information
        <<"p", "e", "r", "s", "o", "n", "a", "l", " ", "d", "a", "t", "a">>,  \* personal data
        <<"p", "i", "i">>,  \* pii
        <<"p", "e", "r", "s", "o", "n", "a", "l", "l", "y", " ", "i", "d", "e", "n", "t", "i", "f", "i", "a", "b", "l", "e">>,  \* personally identifiable
        <<"s", "e", "n", "s", "i", "t", "i", "v", "e", " ", "i", "n", "f", "o", "r", "m", "a", "t", "i", "o", "n">>  \* sensitive information
    >>],
    [name |-> "Location", keywords |-> <<
        <<"l", "o", "c", "a", "t", "i", "o", "n">>,  \* location
        <<"g", "e", "o", "l", "o", "c", "a", "t", "i", "o", "n">>,  \* geolocation
        <<"g", "p", "s">>  \* gps
    >>],
    [name |-> "Retention", keywords |-> <<
        <<"r", "e", "t", "a", "i", "n">>,  \* retain
        <<"r", "e", "t", "e", "n", "t", "i", "o", "n">>,  \* retention
        <<"s", "t", "o", "r", "e">>,  \* store
        <<"s", "t", "o", "r", "a", "g", "e">>,  \* storage
        <<"k", "e", "e", "p">>,  \* keep
        <<"p", "e", "r", "i", "o", "d">>,  \* period
        <<"d", "u", "r", "a", "t", "i", "o", "n">>  \* duration
    >>],
    [name |-> "Security", keywords |-> <<
        <<"s", "e", "c", "u", "r", "i", "t", "y">>,  \* security
        <<"p", "r", "o", "t", "e", "c", "t">>,  \* protect
        <<"e", "n", "c", "r", "y", "p", "t", "i", "o", "n">>,  \* encryption
        <<"b", "r", "e", "a", "c", "h">>  \* breach
    >>]
>>

\* AppendIfNew without its test: a category is listed once per record matching it.
AppendAgain(unique, cat) == Append(unique, cat)

\* if cat not in unique_categories: unique_categories.append(cat)
AppendIfNew(unique, cat) ==
    IF \E j \in DOMAIN unique : unique[j] = cat THEN unique ELSE Append(unique, cat)

\* for cat in matched: ..., from matched[j] on.
RECURSIVE UniqueInner(_, _, _)
UniqueInner(matched, j, unique) ==
    IF j > Len(matched) THEN unique
    ELSE UniqueInner(matched, j + 1, AppendIfNew(unique, matched[j]))

\* for _, matched in results: ..., from results[i] on.
RECURSIVE UniqueOuter(_, _, _)
UniqueOuter(res, i, unique) ==
    IF i > Len(res) THEN unique
    ELSE UniqueOuter(res, i + 1, UniqueInner(res[i].matched, 1, unique))

\* main's extraction of the unique categories of the results.
UniqueCategories(res) == UniqueOuter(res, 1, <<>>)

\* The lines of a stream as `for line in sys.stdin` yields them: each runs up to and
\* includes its "\n"; the last may lack one.  The line being read began at start.
RECURSIVE LinesFrom(_, _, _)
LinesFrom(s, start, pos) ==
    IF pos > Len(s)
    THEN (IF start <= Len(s) THEN <<SubSeq(s, start, Len(s))>> ELSE <<>>)
    ELSE IF s[pos] = "\n"
         THEN <<SubSeq(s, start, pos)>> \o LinesFrom(s, pos + 1, pos + 1)
         ELSE LinesFrom(s, start, pos + 1)

\* line.rstrip("\n")
RECURSIVE RStripNewline(_)
RStripNewline(line) ==
    IF line # <<>> /\ line[Len(line)] = "\n"
    THEN RStripNewline(SubSeq(line, 1, Len(line) - 1))
    ELSE line

\* The loop of prompt_for_text from line i on: stop at a blank line, else keep the
\* line without its newline.
RECURSIVE PromptLoop(_, _, _)
PromptLoop(stdin, i, lines) ==
    IF i > Len(stdin) THEN lines
    ELSE IF Strip(stdin[i]) = <<>> THEN lines
         ELSE PromptLoop(stdin, i + 1, Append(lines, RStripNewline(stdin[i])))

\* "\n".join(lines)
RECURSIVE JoinNewline(_)
JoinNewline(lines) ==
    IF lines = <<>> THEN <<>>
    ELSE IF Len(lines) = 1 THEN lines[1]
         ELSE lines[1] \o <<"\n">> \o JoinNewline(Tail(lines))

prompt_for_text(stdin) == JoinNewline(PromptLoop(LinesFrom(stdin, 1, 1), 1, <<>>))

-----------------------------------------------------------------------------
(* Inputs. *)

\* The characters the segmenter's inputs are drawn from: two sentence-ending marks,
\* two kinds of whitespace, an ASCII capital, a small letter, a non-ASCII capital.
Alphabet == {".", "?", " ", "\n", "A", "b", "É"}

\* Every string over a set of characters, up to a length.
Strings(chars, n) == UNION {[1..k -> chars] : k \in 0..n}

-----------------------------------------------------------------------------
(* The segmenter on its own: split_sentences applied to any text. *)

SplitInit ==
    /\ pc = "start"
    /\ text \in Strings(Alphabet, MaxLen)
    /\ file_path = <<>> /\ source = <<>> /\ categories = <<>>
    /\ sentences = <<>> /\ results = <<>> /\ unique_categories = <<>>
    /\ recommendations = <<>> /\ output = <<>>

SplitCall ==
    /\ pc = "start"
    /\ sentences' = split_sentences(text)
    /\ pc' = "done"
    /\ UNCHANGED <<file_path, source, text, categories, results, unique_categories,
                   recommendations, output>>

SplitNext == SplitCall

SplitSpec == SplitInit /\ [][SplitNext]_vars

-----------------------------------------------------------------------------
(* The matcher on its own: analyze_policy applied to any text and any table. *)

\* Longest text, in characters, given to analyze_policy on its own.
MaxAnalyzeLen == 5

\* Most categories in a table given to analyze_policy on its own.
MaxCats == 2

\* The characters of those texts.
AnalyzeAlphabet == {"a", "B", ".", " "}

\* The keyword lists of those tables: a one-letter keyword; two keywords; a keyword
\* that is not lowercase; the empty keyword.
KeywordLists == {
    << <<"b">> >>,
    << <<"a", ".">>, <<"a", "b">> >>,
    << <<"B">> >>,
    << <<>> >> }

\* A table of n categories: the names are the source's, in its order, which is not
\* the alphabetical one.
TablesOf(n) ==
    {[i \in 1..n |-> [name |-> BuiltinCategories[i].name, keywords |-> kws[i]]] :
        kws \in [1..n -> KeywordLists]}

Tables == UNION {TablesOf(n) : n \in 0..MaxCats}

AnalyzeInit ==
    /\ pc = "start"
    /\ text \in Strings(AnalyzeAlphabet, MaxAnalyzeLen)
    /\ categories \in Tables
    /\ file_path = <<>> /\ source = <<>>
    /\ sentences = <<>> /\ results = <<>> /\ unique_categories = <<>>
    /\ recommendations = <<>> /\ output = <<>>

AnalyzeCall ==
    /\ pc = "start"
    /\ results' = analyze_policy(text, categories)
    /\ pc' = "done"
    /\ UNCHANGED <<file_path, source, text, categories, sentences, unique_categories,
                   recommendations, output>>

AnalyzeNext == AnalyzeCall

AnalyzeSpec == AnalyzeInit /\ [][AnalyzeNext]_vars

-----------------------------------------------------------------------------
(* The aggregator on its own: get_recommendations applied to any category list. *)

\* Longest list of category names given to get_recommendations on its own.
MaxCategoryList == 4

\* The names of those lists: the table's own and one it does not know.
CategoryNames ==
    {category_recommendations[i].name : i \in DOMAIN category_recommendations}
        \cup {"Children"}

RecommendInit ==
    /\ pc = "start"
    /\ unique_categories \in Strings(CategoryNames, MaxCategoryList)
    /\ file_path = <<>> /\ source = <<>> /\ text = <<>> /\ categories = <<>>
    /\ sentences = <<>> /\ results = <<>>
    /\ recommendations = <<>> /\ output = <<>>

RecommendCall ==
    /\ pc = "start"
    /\ recommendations' = get_recommendations(unique_categories)
    /\ pc' = "done"
    /\ UNCHANGED <<file_path, source, text, categories, sentences, results,
                   unique_categories, output>>

RecommendNext == RecommendCall

RecommendSpec == RecommendInit /\ [][RecommendNext]_vars

-----------------------------------------------------------------------------
(* main: one run of the program. *)

\* Most words in a policy given to main.
MaxWords == 4

\* The words those policies are made of: two that hold Retention keywords, one that
\* holds a Security keyword, one that holds a Location keyword, one that holds no
\* keyword, the end of a sentence, the end of a line.
Vocabulary == {
    <<"s", "t", "o", "r", "e", "d">>,
    <<"s", "t", "o", "r", "a", "g", "e">>,
    <<"B", "r", "e", "a", "c", "h">>,
    <<"g", "p", "s">>,
    <<"H", "i">>,
    <<".", " ">>,
    <<"\n">> }

RECURSIVE Concat(_)
Concat(ss) == IF ss = <<>> THEN <<>> ELSE Head(ss) \o Concat(Tail(ss))

Policies == {Concat(ws) : ws \in Strings(Vocabulary, MaxWords)}

\* One printed message.
Message(m) == [kind |-> "message", index |-> 0, body |-> m, cats |-> <<>>]

\* print(f"{i}. {sentence}\n   Categories: {cats}\n") for each result
ResultLines(res) ==
    [i \in DOMAIN res |->
        [kind |-> "result", index |-> i, body |-> res[i].sentence,
         cats |-> res[i].matched]]

\* print(f"- {rec}") for each recommendation
RecommendationLines(recs) ==
    [i \in DOMAIN recs |-> [kind |-> "recommendation", index |-> i, body |-> recs[i],
                            cats |-> <<>>]]

\* After parse_args: -f names a file or is absent, and the file or standard input
\* holds some policy.
Init ==
    /\ pc = "read"
    /\ file_path \in {<<>>, <<"p">>}
    /\ source \in Policies
    /\ categories = BuiltinCategories
    /\ text = <<>> /\ sentences = <<>> /\ results = <<>> /\ unique_categories = <<>>
    /\ recommendations = <<>> /\ output = <<>>

\* text = load_text_from_file(args.file_path), the read succeeding.
LoadFile ==
    /\ pc = "read" /\ file_path # <<>>
    /\ text' = source
    /\ pc' = "analyze"
    /\ UNCHANGED <<file_path, source, categories, sentences, results,
                   unique_categories, recommendations, output>>

\* open() or read() raises an OSError (no such file, no permission, a directory):
\* main prints it and returns.
LoadFileOSError ==
    /\ pc = "read" /\ file_path # <<>>
    /\ output' = Append(output, Message("Error reading file"))
    /\ pc' = "done"
    /\ UNCHANGED <<file_path, source, text, categories, sentences, results,
                   unique_categories, recommendations>>

\* read() raises UnicodeDecodeError (the file's bytes are not UTF-8): a ValueError,
\* which `except OSError` does not catch, so it leaves main as a traceback.  As
\* with an OSError, no text is read: source plays no part.
LoadFileDecodeError ==
    /\ pc = "read" /\ file_path # <<>>
    /\ pc' = "crashed"
    /\ UNCHANGED <<file_path, source, text, categories, sentences, results,
                   unique_categories, recommendations, output>>

\* text = prompt_for_text(); if not text.strip(): print(...); return
PromptEmpty ==
    /\ pc = "read" /\ file_path = <<>>
    /\ Strip(prompt_for_text(source)) = <<>>
    /\ text' = prompt_for_text(source)
    /\ output' = output \o <<Message("Paste the privacy policy text"),
                             Message("No text provided. Exiting.")>>
    /\ pc' = "done"
    /\ UNCHANGED <<file_path, source, categories, sentences, results,
                   unique_categories, recommendations>>

\* text = prompt_for_text(), with some text in it.
PromptText ==
    /\ pc = "read" /\ file_path = <<>>
    /\ Strip(prompt_for_text(source)) # <<>>
    /\ text' = prompt_for_text(source)
    /\ output' = Append(output, Message("Paste the privacy policy text"))
    /\ pc' = "analyze"
    /\ UNCHANGED <<file_path, source, categories, sentences, results,
                   unique_categories, recommendations>>

\* results = analyze_policy(text, categories)
Analyze ==
    /\ pc = "analyze"
    /\ results' = analyze_policy(text, categories)
    /\ pc' = "report"
    /\ UNCHANGED <<file_path, source, text, categories, sentences,
                   unique_categories, recommendations, output>>

\* if not results: print(...)
ReportNone ==
    /\ pc = "report"
    /\ results = <<>>
    /\ output' = Append(output,
                        Message("No potentially sensitive practices were detected"))
    /\ pc' = "done"
    /\ UNCHANGED <<file_path, source, text, categories, sentences, results,
                   unique_categories, recommendations>>

\* else: the numbered results, the unique categories, the recommendations.
ReportConcerns ==
    /\ pc = "report"
    /\ results # <<>>
    /\ unique_categories' = UniqueCategories(results)
    /\ recommendations' = get_recommendations(unique_categories')
    /\ output' = output
                 \o <<Message("Potential data privacy concerns detected")>>
                 \o ResultLines(results)
                 \o (IF recommendations' # <<>>
                     THEN <<Message("Recommended actions to protect your data")>>
                          \o RecommendationLines(recommendations')
                     ELSE <<>>)
    /\ pc' = "done"
    /\ UNCHANGED <<file_path, source, text, categories, sentences, results>>

Next ==
    \/ LoadFile
    \/ LoadFileOSError
    \/ LoadFileDecodeError
    \/ PromptEmpty
    \/ PromptText
    \/ Analyze
    \/ ReportNone
    \/ ReportConcerns

Spec == Init /\ [][Next]_vars

-----------------------------------------------------------------------------
(* What the claims are stated with. *)

\* needle occurs somewhere in hay.
Occurs(needle, hay) ==
    \E i \in 1..(Len(hay) + 1 - Len(needle)) :
        SubSeq(hay, i, i + Len(needle) - 1) = needle

\* s with its whitespace deleted.
WithoutWhitespace(s) ==
    LET Visible(c) == c \notin Whitespace IN SelectSeq(s, Visible)

\* The strings of ss joined by single spaces.
RECURSIVE JoinSpace(_)
JoinSpace(ss) ==
    IF ss = <<>> THEN <<>>
    ELSE IF Len(ss) = 1 THEN ss[1]
         ELSE ss[1] \o <<" ">> \o JoinSpace(Tail(ss))

\* The sentence boundaries of s: the indices of a '.', '!' or '?' that whitespace
\* and then a letter of `capitals` follow.
Boundaries(s, capitals) ==
    {i \in DOMAIN s :
        /\ s[i] \in {".", "!", "?"}
        /\ \E j \in (i + 2)..Len(s) :
              /\ s[j] \in capitals
              /\ \A k \in (i + 1)..(j - 1) : s[k] \in Whitespace}

\* Every uppercase letter, ASCII or not.
AnyUpper == {UpperLetters[i] : i \in DOMAIN UpperLetters}

\* ss is s cut at each of its boundaries and nowhere else: joined by the spaces
\* the cuts removed it is s again, there is one cut per boundary, every cut has a
\* mark before it and a capital after it, and no piece holds a boundary.
CutAtBoundaries(ss, s, capitals) ==
    /\ JoinSpace(ss) = s
    /\ Len(ss) = Cardinality(Boundaries(s, capitals)) + 1
    /\ \A k \in 1..(Len(ss) - 1) :
          /\ ss[k] # <<>> /\ ss[k][Len(ss[k])] \in {".", "!", "?"}
          /\ ss[k + 1] # <<>> /\ ss[k + 1][1] \in capitals
    /\ \A k \in DOMAIN ss : Boundaries(ss[k], capitals) = {}

-----------------------------------------------------------------------------
(* The segmenter's claims, under SplitSpec. *)

\* C2: every sentence split_sentences returns is non-empty, is not whitespace-only
\* and has no whitespace at either end.
C2_SentencesTrimmedNonEmpty ==
    pc = "done" =>
        \A i \in DOMAIN sentences :
            /\ sentences[i] # <<>>
            /\ \E j \in DOMAIN sentences[i] : sentences[i][j] \notin Whitespace
            /\ sentences[i][1] \notin Whitespace
            /\ sentences[i][Len(sentences[i])] \notin Whitespace

\* C2's case: a text with whitespace at both ends that is split in two.
C2_Witness ==
    /\ pc = "done"
    /\ Len(text) >= 2 /\ text[1] \in Whitespace /\ text[Len(text)] \in Whitespace
    /\ Len(sentences) = 2

\* C3: the sentences, concatenated in order and with whitespace deleted, are the
\* non-whitespace characters of the normalized input, in order.
C3_NonWhitespacePreserved ==
    pc = "done" =>
        WithoutWhitespace(Concat(sentences)) = WithoutWhitespace(Cleaned(text))

\* C3's case: a text that is split, with a run of whitespace at the split.
C3_Witness ==
    /\ pc = "done"
    /\ Len(sentences) >= 2
    /\ \E i \in 1..(Len(text) - 1) : text[i] \in Whitespace /\ text[i + 1] \in Whitespace

-----------------------------------------------------------------------------
(* The matcher's claims, under AnalyzeSpec. *)

\* Some keyword of the table's entry c occurs in the lowercased sentence.
KeywordOccurs(sentence, c) ==
    \E k \in DOMAIN categories[c].keywords :
        Occurs(categories[c].keywords[k], Lower(sentence))

\* C1: in every record of analyze_policy, a category is in matched iff one of its
\* keywords is a substring of the lowercased sentence, and matched lists the names
\* in the table's order, each at most once.
C1_MatchedIffKeyword ==
    pc = "done" =>
        \A r \in DOMAIN results :
            LET matched == results[r].matched
                \* where the table holds a name
                At(name) == CHOOSE c \in DOMAIN categories : categories[c].name = name
            IN  /\ \A m \in DOMAIN matched :
                       \E c \in DOMAIN categories : categories[c].name = matched[m]
                /\ \A c \in DOMAIN categories :
                       (\E m \in DOMAIN matched : matched[m] = categories[c].name)
                           <=> KeywordOccurs(results[r].sentence, c)
                /\ \A m1, m2 \in DOMAIN matched :
                       m1 < m2 => At(matched[m1]) < At(matched[m2])

\* C1's case: under a table of two categories, one sentence matched one of them
\* and another, with a capital in it, matched both.
C1_Witness ==
    /\ pc = "done"
    /\ Len(categories) = 2
    /\ \E r1, r2 \in DOMAIN results :
          /\ Len(results[r1].matched) = 1
          /\ Len(results[r2].matched) = 2
          /\ \E j \in DOMAIN results[r2].sentence : results[r2].sentence[j] = "B"

\* C5: analyze_policy records a sentence exactly when it matched a category, no
\* record has an empty category sequence, and the records' sentences are a
\* subsequence of split_sentences' output, in its order.
C5_RecordsAreTheMatchingSentences ==
    pc = "done" =>
        LET sents == split_sentences(text)
            hits == {i \in DOMAIN sents :
                        \E c \in DOMAIN categories : KeywordOccurs(sents[i], c)}
        IN  /\ \A r \in DOMAIN results : results[r].matched # <<>>
            /\ Len(results) = Cardinality(hits)
            /\ \E f \in [DOMAIN results -> hits] :
                  /\ \A r1, r2 \in DOMAIN results : r1 < r2 => f[r1] < f[r2]
                  /\ \A r \in DOMAIN results : results[r].sentence = sents[f[r]]

\* C5's case: of two sentences, the first matched nothing and was dropped, the
\* second was recorded.
C5_Witness ==
    /\ pc = "done"
    /\ Len(split_sentences(text)) = 2
    /\ Len(results) = 1
    /\ results[1].sentence = split_sentences(text)[2]

-----------------------------------------------------------------------------
(* The aggregator's claim, under RecommendSpec. *)

\* The looked-up recommendation lists of a category list, concatenated in its order.
LookedUp(cats) ==
    Concat([i \in DOMAIN cats |->
               IF \E t \in DOMAIN category_recommendations :
                      category_recommendations[t].name = cats[i]
               THEN category_recommendations[
                        CHOOSE t \in DOMAIN category_recommendations :
                            category_recommendations[t].name = cats[i]].recs
               ELSE <<>>])

\* The index of the first x in s.
FirstIndex(s, x) == CHOOSE i \in DOMAIN s : s[i] = x /\ \A j \in 1..(i - 1) : s[j] # x

\* out is s with every later repeat of an element removed.
FirstOccurrencesOf(out, s) ==
    /\ \A i, j \in DOMAIN out : i # j => out[i] # out[j]
    /\ {out[i] : i \in DOMAIN out} = {s[i] : i \in DOMAIN s}
    /\ \A i, j \in DOMAIN out : i < j => FirstIndex(s, out[i]) < FirstIndex(s, out[j])

\* C4: get_recommendations returns no string twice; its output is the looked-up
\* lists concatenated in input order with every later repeat removed; names the
\* table does not know contribute nothing.
C4_DedupedInFirstSeenOrder ==
    pc = "done" =>
        /\ FirstOccurrencesOf(recommendations, LookedUp(unique_categories))
        /\ (\A i \in DOMAIN unique_categories : unique_categories[i] = "Children")
               => recommendations = <<>>

\* C4's case: a list that repeats a known category around an unknown one.
C4_Witness ==
    /\ pc = "done"
    /\ unique_categories = <<"Security", "Children", "Security">>
    /\ Len(recommendations) = 2

-----------------------------------------------------------------------------
(* main's claims, under Spec. *)

\* The run printed the message m.
Printed(m) ==
    \E i \in DOMAIN output : output[i].kind = "message" /\ output[i].body = m

IsBlank(t) == \A i \in DOMAIN t : t[i] \in Whitespace

\* C7: when reading the policy file fails, or the interactive input is empty, main
\* prints a message and exits without analysing, recommending or crashing.
C7_FailuresReportedWithoutCrash ==
    /\ pc # "crashed"
    /\ (Printed("Error reading file") \/ Printed("No text provided. Exiting."))
           => /\ pc = "done"
              /\ results = <<>> /\ unique_categories = <<>> /\ recommendations = <<>>
              /\ ~Printed("No potentially sensitive practices were detected")
              /\ ~Printed("Potential data privacy concerns detected")

\* C8, as claimed: on blank text split_sentences and analyze_policy return empty
\* sequences, and main, given such text, ends on the "No potentially sensitive
\* practices were detected" path.
C8_AsClaimed ==
    (IsBlank(text) /\ ~Printed("Error reading file") /\ pc = "done")
        => /\ split_sentences(text) = <<>>
           /\ \A cats \in Tables \cup {BuiltinCategories} :
                  analyze_policy(text, cats) = <<>>
           /\ Printed("No potentially sensitive practices were detected")

\* C8, amended: on blank text split_sentences and analyze_policy return empty
\* sequences for every table; main, given such text from a file, ends on the "No
\* potentially sensitive practices were detected" path, and given empty interactive
\* input ends on "No text provided. Exiting." without analysing.
C8_BlankTextYieldsNothing ==
    (IsBlank(text) /\ ~Printed("Error reading file") /\ pc \in {"report", "done"})
        => /\ split_sentences(text) = <<>>
           /\ \A cats \in Tables \cup {BuiltinCategories} :
                  analyze_policy(text, cats) = <<>>
           /\ results = <<>>
           /\ (pc = "done" /\ file_path # <<>>)
                  => output = <<Message("No potentially sensitive practices were detected")>>
           /\ (pc = "done" /\ file_path = <<>>)
                  => output = <<Message("Paste the privacy policy text"),
                                Message("No text provided. Exiting.")>>

\* C8's case: a file of whitespace only, read and reported as holding nothing.
C8_Witness ==
    /\ pc = "done"
    /\ file_path # <<>>
    /\ text # <<>> /\ IsBlank(text)
    /\ Printed("No potentially sensitive practices were detected")

\* The categories of the records, record after record.
MatchedInOrder == Concat([r \in DOMAIN results |-> results[r].matched])

\* The built-in recommendations of a known category.
BuiltinRecs(name) ==
    category_recommendations[
        CHOOSE t \in DOMAIN category_recommendations :
            category_recommendations[t].name = name].recs

\* C9: the unique-category list main extracts is duplicate-free and in
\* first-encountered order, and get_recommendations on it returns the built-in
\* recommendations of each of its categories, grouped in that order, each string
\* once; when every record matches only "Security" the list is <<"Security">> and
\* the output is the two Security recommendations.
C9_UniqueCategoriesAndTheirRecommendations ==
    (pc = "done" /\ results # <<>>) =>
        /\ FirstOccurrencesOf(unique_categories, MatchedInOrder)
        /\ recommendations =
               Concat([i \in DOMAIN unique_categories |-> BuiltinRecs(unique_categories[i])])
        /\ \A i, j \in DOMAIN recommendations :
               i # j => recommendations[i] # recommendations[j]
        /\ (\A r \in DOMAIN results : results[r].matched = <<"Security">>)
               => /\ unique_categories = <<"Security">>
                  /\ recommendations = <<"Enable any available security features",
                                         "Keep your device and apps updated">>

\* C9's case: two records, both matching only "Security".
C9_Witness ==
    /\ pc = "done"
    /\ Len(results) = 2
    /\ \A r \in DOMAIN results : results[r].matched = <<"Security">>
    /\ Len(recommendations) = 2

\* The records of a sentence.
RecordsOf(sentence) == {r \in DOMAIN results : results[r].sentence = sentence}

Store == <<"s", "t", "o", "r", "e">>
Stored == <<"s", "t", "o", "r", "e", "d">>
Storage == <<"s", "t", "o", "r", "a", "g", "e">>

\* C10, as claimed: matching is plain substring containment, such that the word
\* "storage" in a lowercased sentence matches the keyword "store".
C10_AsClaimed ==
    pc = "done" =>
        \A i \in DOMAIN split_sentences(text) :
            LET lowered == Lower(split_sentences(text)[i])
            IN  Occurs(Storage, lowered) => Contains(lowered, Store)

\* C10, amended: matching is plain substring containment with no word-boundary
\* check, such that the word "stored" in a lowercased sentence matches the keyword
\* "store" inside the longer word, and the sentence is tagged "Retention"; "storage"
\* does not hold "store", and is tagged through the keyword "storage".
C10_SubstringWithoutWordBoundary ==
    pc = "done" =>
        \A i \in DOMAIN split_sentences(text) :
            LET sentence == split_sentences(text)[i]
                lowered == Lower(sentence)
            IN  /\ Occurs(Stored, lowered) => Contains(lowered, Store)
                /\ Occurs(Store, lowered)
                       => /\ RecordsOf(sentence) # {}
                          /\ \A r \in RecordsOf(sentence) :
                                 \E m \in DOMAIN results[r].matched :
                                     results[r].matched[m] = "Retention"
                /\ sentence = Storage => ~Contains(lowered, Store)

\* C10's case: a sentence whose only Retention keyword is the "store" of "stored",
\* tagged "Retention".
C10_Witness ==
    /\ pc = "done"
    /\ \E r \in DOMAIN results :
          /\ Occurs(Stored, Lower(results[r].sentence))
          /\ ~Occurs(Storage, Lower(results[r].sentence))
          /\ \E m \in DOMAIN results[r].matched : results[r].matched[m] = "Retention"

====
